---- MODULE Spec2Model ----
(***************************************************************************)
(* Model of SerialChooserContext                                           *)
(* (shell/browser/serial/serial_chooser_context.cc): per-origin serial     *)
(* port permissions, ephemeral (keyed by session token) or durable (keyed  *)
(* by a platform-specific stable identity), the live port map, and the     *)
(* connection to the device service's SerialPortManager.                   *)
(***************************************************************************)
EXTENDS Integers, Sequences, FiniteSets, TLC

(* ---- bounds of the model ---- *)
NumOrigins == 2
NumTokens == 4
MaxGrants == 3
MaxLog == 2
MaxLegacy == 1

(* ---- build targets: the three #if branches of the source ---- *)
Platforms == {"win", "mac", "other"}

Origins == 1..NumOrigins

(* A uint64_t is modelled by its eight bytes in memory order, which is all
   the codec reads of it. *)
Pow256(i) == IF i = 0 THEN 1 ELSE IF i = 1 THEN 256 ELSE IF i = 2 THEN 65536 ELSE 16777216
(* byte i of a value that fits 31 bits *)
ByteOf(n, i) == IF i < 4 THEN (n \div Pow256(i)) % 256 ELSE 0
U64(n) == [i \in 1..8 |-> ByteOf(n, i - 1)]

(* base::UnguessableToken: two 64-bit halves *)
TokenOf(n) == [high |-> U64(n), low |-> U64(16 * n + 1)]
Tokens == {TokenOf(n) : n \in 1..NumTokens}
NullToken == [high |-> U64(0), low |-> U64(0)]

(* An optional<T> is the empty tuple (absent) or a one-element tuple. *)
None == <<>>
Some(x) == <<x>>

(* device::mojom::SerialPortInfo descriptors the enumeration service can
   report.  Token n mod 4 selects the attribute shape:
     1: full identity                 (persistable on every platform)
     2: same identity as 1, new token (a re-arrival of the same device)
     3: same vendor/product/serial as 1, other driver, empty instance id
     0: no display name               (persistable nowhere)              *)
PortOf(n) ==
  [token |-> TokenOf(n),
   path |-> IF n % 4 = 0 THEN "ttyUSB0" ELSE "ttyUSB1",
   display_name |-> IF n % 4 = 0 THEN None ELSE Some("Widget Adapter"),
   device_instance_id |-> IF n % 4 = 3 THEN "" ELSE "USB\\VID_1234&PID_5678\\ABC123",
   has_vendor_id |-> TRUE,
   vendor_id |-> 4660,
   has_product_id |-> TRUE,
   product_id |-> 22136,
   serial_number |-> Some("ABC123"),
   usb_driver_name |-> IF n % 4 = 3 THEN Some("FTDIUSBSerialDriver")
                                    ELSE Some("AppleUSBCDC")]
Ports == {PortOf(n) : n \in 1..NumTokens}
NoPort == [PortOf(0) EXCEPT !.path = ""]

VARIABLES
  platform,            \* build target (fixed for a run)
  port_manager_,       \* mojo::Remote<SerialPortManager>: TRUE iff bound
  client_receiver_,    \* mojo::Receiver<SerialPortManagerClient>: TRUE iff bound
  port_info_,          \* std::map<UnguessableToken, base::Value>
  ephemeral_ports_,    \* std::map<url::Origin, std::set<UnguessableToken>>
  granted_objects,     \* durable collection kSerialGrantedDevicesPref: origin -> list of values
  port_observer_list_, \* base::ObserverList<PortObserver>, in registration order
  delivered,           \* the observer callbacks made, in call order: <<observer, event>>
  last_op,             \* the operation that acted last and what it returned
  eph_grants,          \* history: <<origin, port>> granted non-persistably since the last connection loss
  dur_grants,          \* history: <<origin, port>> granted persistably
  call                 \* the last call of a static helper: function, argument, result

vars == <<platform, port_manager_, client_receiver_, port_info_, ephemeral_ports_,
          granted_objects, port_observer_list_, delivered, last_op,
          eph_grants, dur_grants, call>>

Observers == {"ob1", "ob2"}

(* ---- Identity codec ---- *)
Pad == 64
(* variant: the low half is serialized first *)
TokenBytes_LowFirst(t) == t.low \o t.high
(* const uint64_t data[2] = {high, low}, read as 16 chars *)
TokenBytes(t) == t.high \o t.low
(* Base64 text is modelled as the sequence of its 6-bit digits, Pad for '=' *)
Base64Encode(b) ==
  [k \in 1..(4 * ((Len(b) + 2) \div 3)) |->
     LET g == (k - 1) \div 4
         j == (k - 1) % 4
         has1 == 3 * g + 2 <= Len(b)
         has2 == 3 * g + 3 <= Len(b)
         b0 == b[3 * g + 1]
         b1 == IF has1 THEN b[3 * g + 2] ELSE 0
         b2 == IF has2 THEN b[3 * g + 3] ELSE 0
     IN CASE j = 0 -> b0 \div 4
          [] j = 1 -> (b0 % 4) * 16 + (b1 \div 16)
          [] j = 2 -> IF has1 THEN (b1 % 16) * 4 + (b2 \div 64) ELSE Pad
          [] j = 3 -> IF has2 THEN b2 % 64 ELSE Pad]
EncodeToken(token) == Base64Encode(TokenBytes(token))

(* base::Base64Decode: whether the text is well formed, and the bytes *)
Base64Padding(text) ==
  IF Len(text) >= 2 /\ text[Len(text) - 1] = Pad /\ text[Len(text)] = Pad THEN 2
  ELSE IF Len(text) >= 1 /\ text[Len(text)] = Pad THEN 1 ELSE 0
Base64Decode(text) ==
  LET pads == Base64Padding(text)
      ok == /\ Len(text) % 4 = 0
            /\ \A k \in 1..(Len(text) - pads) : text[k] \in 0..63
      digit(k) == IF text[k] = Pad THEN 0 ELSE text[k]
  IN [ok |-> ok,
      bytes |-> IF ~ok THEN <<>>
                ELSE [n \in 1..(3 * (Len(text) \div 4) - pads) |->
                        LET g == (n - 1) \div 3
                            j == (n - 1) % 3
                            s0 == digit(4 * g + 1)
                            s1 == digit(4 * g + 2)
                            s2 == digit(4 * g + 3)
                            s3 == digit(4 * g + 4)
                        IN CASE j = 0 -> s0 * 4 + (s1 \div 16)
                             [] j = 1 -> (s1 % 16) * 16 + (s2 \div 4)
                             [] j = 2 -> (s2 % 4) * 64 + s3]]
DecodeToken(input) ==
  LET buffer == Base64Decode(input)
  IN IF ~buffer.ok \/ Len(buffer.bytes) # 16
     THEN NullToken
     ELSE [high |-> SubSeq(buffer.bytes, 1, 8), low |-> SubSeq(buffer.bytes, 9, 16)]

(* ---- Persistence eligibility rule ---- *)
(* variant: an empty serial number is accepted *)
CanStorePersistentEntryOn_EmptySerial(plat, port) ==
  IF port.display_name = None \/ port.display_name[1] = ""
  THEN FALSE
  ELSE IF plat = "win"
       THEN port.device_instance_id # ""
       ELSE IF \/ ~port.has_vendor_id
               \/ ~port.has_product_id
               \/ port.serial_number = None
            THEN FALSE
            ELSE IF plat = "mac" /\ (port.usb_driver_name = None \/ port.usb_driver_name[1] = "")
                 THEN FALSE
                 ELSE TRUE
CanStorePersistentEntryOn(plat, port) ==
  IF port.display_name = None \/ port.display_name[1] = ""
  THEN FALSE
  ELSE IF plat = "win"
       THEN port.device_instance_id # ""
       ELSE IF \/ ~port.has_vendor_id
               \/ ~port.has_product_id
               \/ port.serial_number = None
               \/ port.serial_number[1] = ""
            THEN FALSE
            ELSE IF plat = "mac" /\ (port.usb_driver_name = None \/ port.usb_driver_name[1] = "")
                 THEN FALSE
                 ELSE TRUE
CanStorePersistentEntry(port) == CanStorePersistentEntryOn(platform, port)

(* ---- Device record serializer ---- *)
PortName(port) ==
  IF port.display_name # None /\ port.display_name[1] # ""
  THEN port.display_name[1]
  ELSE port.path
(* variant: the token key is written for every descriptor *)
PortInfoToValue_AlwaysToken(port) ==
  IF ~CanStorePersistentEntry(port)
  THEN [name |-> PortName(port), token |-> EncodeToken(port.token)]
  ELSE IF platform = "win"
       THEN [name |-> PortName(port), token |-> EncodeToken(port.token),
             device_instance_id |-> port.device_instance_id]
       ELSE IF platform = "mac"
            THEN [name |-> PortName(port), token |-> EncodeToken(port.token),
                  vendor_id |-> port.vendor_id,
                  product_id |-> port.product_id,
                  serial_number |-> port.serial_number[1],
                  usb_driver |-> port.usb_driver_name[1]]
            ELSE [name |-> PortName(port), token |-> EncodeToken(port.token),
                  vendor_id |-> port.vendor_id,
                  product_id |-> port.product_id,
                  serial_number |-> port.serial_number[1]]
PortInfoToValue(port) ==
  IF ~CanStorePersistentEntry(port)
  THEN [name |-> PortName(port), token |-> EncodeToken(port.token)]
  ELSE IF platform = "win"
       THEN [name |-> PortName(port), device_instance_id |-> port.device_instance_id]
       ELSE IF platform = "mac"
            THEN [name |-> PortName(port), vendor_id |-> port.vendor_id,
                  product_id |-> port.product_id,
                  serial_number |-> port.serial_number[1],
                  usb_driver |-> port.usb_driver_name[1]]
            ELSE [name |-> PortName(port), vendor_id |-> port.vendor_id,
                  product_id |-> port.product_id,
                  serial_number |-> port.serial_number[1]]

(* ---- Durable per-origin grant collection (external profile store) ---- *)
(* The attributes of a stored value that identify the device: every key but
   the display name. *)
ObjectKey(value) == [k \in DOMAIN value \ {"name"} |-> value[k]]
(* Upsert: a value for an identity already in the list replaces that entry,
   any other value is appended. *)
GrantObjectPermission(list, value) ==
  IF \E i \in 1..Len(list) : ObjectKey(list[i]) = ObjectKey(value)
  THEN [i \in 1..Len(list) |->
          IF ObjectKey(list[i]) = ObjectKey(value) THEN value ELSE list[i]]
  ELSE Append(list, value)
GetGrantedObjects(origin) == granted_objects[origin]

(* ---- Permission check ---- *)
(* variant: the driver name is not compared *)
RECURSIVE ScanGrantedObjects_NoDriver(_, _, _)
ScanGrantedObjects_NoDriver(list, i, port) ==
  IF i > Len(list)
  THEN {"false"}
  ELSE LET device == list[i]
           rest == ScanGrantedObjects_NoDriver(list, i + 1, port)
           undefined == {"fault", "true"} \cup rest
       IN IF platform = "win"
          THEN IF "device_instance_id" \notin DOMAIN device
               THEN undefined
               ELSE IF port.device_instance_id = device.device_instance_id
                    THEN {"true"}
                    ELSE rest
          ELSE IF {"vendor_id", "product_id", "serial_number"} \ DOMAIN device # {}
               THEN undefined
               ELSE IF \/ port.vendor_id # device.vendor_id
                       \/ port.product_id # device.product_id
                       \/ port.serial_number # Some(device.serial_number)
                    THEN rest
                    ELSE {"true"}

(* The scan of the durable list from index i on.  The result is the set of
   outcomes the build can produce: "true", "false", or "fault" where the
   code dereferences the result of a failed key lookup. *)
RECURSIVE ScanGrantedObjects(_, _, _)
ScanGrantedObjects(list, i, port) ==
  IF i > Len(list)
  THEN {"false"}
  ELSE LET device == list[i]
           rest == ScanGrantedObjects(list, i + 1, port)
           undefined == {"fault", "true"} \cup rest
       IN IF platform = "win"
          THEN IF "device_instance_id" \notin DOMAIN device
               THEN undefined
               ELSE IF port.device_instance_id = device.device_instance_id
                    THEN {"true"}
                    ELSE rest
          ELSE IF {"vendor_id", "product_id", "serial_number"} \ DOMAIN device # {}
               THEN undefined
               ELSE IF \/ port.vendor_id # device.vendor_id
                       \/ port.product_id # device.product_id
                       \/ port.serial_number # Some(device.serial_number)
                    THEN rest
                    ELSE IF platform = "mac"
                         THEN IF "usb_driver" \notin DOMAIN device
                              THEN undefined
                              ELSE IF port.usb_driver_name # Some(device.usb_driver)
                                   THEN rest
                                   ELSE {"true"}
                         ELSE {"true"}

(* variant: the token is looked up in the ephemeral sets of all origins *)
HasPortPermission_AnyOrigin(origin, port) ==
  IF \E o \in DOMAIN ephemeral_ports_ : port.token \in ephemeral_ports_[o]
  THEN {"true"}
  ELSE IF ~CanStorePersistentEntry(port)
       THEN {"false"}
       ELSE ScanGrantedObjects(GetGrantedObjects(origin), 1, port)
HasPortPermission(origin, port) ==
  IF origin \in DOMAIN ephemeral_ports_ /\ port.token \in ephemeral_ports_[origin]
  THEN {"true"}
  ELSE IF ~CanStorePersistentEntry(port)
       THEN {"false"}
       ELSE ScanGrantedObjects(GetGrantedObjects(origin), 1, port)

(* ---- vocabulary of the properties ---- *)
(* The stable-identity rule of the platform, stated on descriptors. *)
StableIdentityKnown(port) ==
  /\ port.display_name \notin {None, Some("")}
  /\ CASE platform = "win" -> port.device_instance_id # ""
       [] platform = "mac" -> /\ port.has_vendor_id /\ port.has_product_id
                              /\ port.serial_number \notin {None, Some("")}
                              /\ port.usb_driver_name \notin {None, Some("")}
       [] OTHER -> /\ port.has_vendor_id /\ port.has_product_id
                   /\ port.serial_number \notin {None, Some("")}
SameStableIdentity(p, q) ==
  CASE platform = "win" -> p.device_instance_id = q.device_instance_id
    [] platform = "mac" -> /\ p.vendor_id = q.vendor_id /\ p.product_id = q.product_id
                           /\ p.serial_number = q.serial_number
                           /\ p.usb_driver_name = q.usb_driver_name
    [] OTHER -> /\ p.vendor_id = q.vendor_id /\ p.product_id = q.product_id
                /\ p.serial_number = q.serial_number
IdentityKeys ==
  CASE platform = "win" -> {"device_instance_id"}
    [] platform = "mac" -> {"vendor_id", "product_id", "serial_number", "usb_driver"}
    [] OTHER -> {"vendor_id", "product_id", "serial_number"}
(* a stored value that carries every identity key and equals the descriptor on each *)
ValueIdentifies(value, port) ==
  /\ IdentityKeys \subseteq DOMAIN value
  /\ CASE platform = "win" -> value.device_instance_id = port.device_instance_id
       [] platform = "mac" -> /\ value.vendor_id = port.vendor_id
                              /\ value.product_id = port.product_id
                              /\ Some(value.serial_number) = port.serial_number
                              /\ Some(value.usb_driver) = port.usb_driver_name
       [] OTHER -> /\ value.vendor_id = port.vendor_id
                   /\ value.product_id = port.product_id
                   /\ Some(value.serial_number) = port.serial_number
Granted == eph_grants \cup dur_grants
EphemeralSet(origin) ==
  IF origin \in DOMAIN ephemeral_ports_ THEN ephemeral_ports_[origin] ELSE {}

(* ---- helpers of the actions ---- *)
(* std::map::insert: an existing key keeps its value *)
MapInsert(map, key, value) ==
  IF key \in DOMAIN map THEN map
  ELSE [k \in DOMAIN map \cup {key} |-> IF k = key THEN value ELSE map[k]]
MapErase(map, key) == [k \in DOMAIN map \ {key} |-> map[k]]
EmptyMap == [k \in {} |-> {}]
(* variant: the origin's set is assigned, not inserted into *)
EphemeralInsert_Assign(map, origin, token) ==
  [o \in DOMAIN map \cup {origin} |-> IF o = origin THEN {token} ELSE map[o]]
(* ephemeral_ports_[origin].insert(token) *)
EphemeralInsert(map, origin, token) ==
  [o \in DOMAIN map \cup {origin} |->
     IF o = origin
     THEN (IF o \in DOMAIN map THEN map[o] ELSE {}) \cup {token}
     ELSE map[o]]
Op(op, origin, port, result) ==
  [op |-> op, origin |-> origin, port |-> port, result |-> result]
(* a fault ends the process *)
Running == last_op.result # "fault"
(* variant: the list is walked from its end *)
RECURSIVE NotifyObservers_Reverse(_, _, _)
NotifyObservers_Reverse(list, log, event) ==
  IF list = <<>> THEN log
  ELSE NotifyObservers_Reverse(SubSeq(list, 1, Len(list) - 1),
                               Append(log, <<list[Len(list)], event>>), event)
RECURSIVE NotifyObservers(_, _, _)
NotifyObservers(list, log, event) ==
  IF list = <<>> THEN log
  ELSE NotifyObservers(Tail(list), Append(log, <<Head(list), event>>), event)
(* the call log of the model holds at most MaxLog callbacks *)
CanNotify == Len(delivered) + Len(port_observer_list_) <= MaxLog
NoCall == [fn |-> "none", arg |-> "none", ret |-> "none", src |-> "none"]

(* ---- state after construction ---- *)
Init ==
  /\ platform \in Platforms
  /\ port_manager_ = FALSE
  /\ client_receiver_ = FALSE
  /\ port_info_ = EmptyMap
  /\ ephemeral_ports_ = EmptyMap
  /\ granted_objects = [o \in Origins |-> <<>>]
  /\ port_observer_list_ = <<>>
  /\ delivered = <<>>
  /\ last_op = Op("init", 0, NoPort, "none")
  /\ eph_grants = {}
  /\ dur_grants = {}
  /\ call = NoCall

(* ---- operations ---- *)
(* the model holds at most MaxGrants distinct (origin, port) grants at a time *)
WithinGrantBound(origin, port) ==
  \/ <<origin, port>> \in Granted
  \/ Cardinality(Granted) < MaxGrants

(* variant: no return after the durable grant *)
GrantPortPermission_NoReturn(origin, port) ==
  /\ Running
  /\ WithinGrantBound(origin, port)
  /\ port_info_' = MapInsert(port_info_, port.token, PortInfoToValue(port))
  /\ IF CanStorePersistentEntry(port)
     THEN granted_objects' =
            [granted_objects EXCEPT ![origin] =
               GrantObjectPermission(@, PortInfoToValue(port))]
     ELSE UNCHANGED granted_objects
  /\ ephemeral_ports_' = EphemeralInsert(ephemeral_ports_, origin, port.token)
  /\ IF StableIdentityKnown(port)
     THEN dur_grants' = dur_grants \cup {<<origin, port>>} /\ UNCHANGED eph_grants
     ELSE eph_grants' = eph_grants \cup {<<origin, port>>} /\ UNCHANGED dur_grants
  /\ last_op' = Op("grant", origin, port,
                   IF <<origin, port>> \in Granted THEN "again" ELSE "new")
  /\ UNCHANGED <<platform, call, port_manager_, client_receiver_, port_observer_list_,
                 delivered>>

(* variant: the grant ensures the connection to the port manager *)
GrantPortPermission_Connects(origin, port) ==
  /\ Running
  /\ WithinGrantBound(origin, port)
  /\ port_manager_' = TRUE
  /\ client_receiver_' = (IF port_manager_ THEN client_receiver_ ELSE TRUE)
  /\ port_info_' = MapInsert(port_info_, port.token, PortInfoToValue(port))
  /\ IF CanStorePersistentEntry(port)
     THEN /\ granted_objects' =
               [granted_objects EXCEPT ![origin] =
                  GrantObjectPermission(@, PortInfoToValue(port))]
          /\ UNCHANGED ephemeral_ports_
     ELSE /\ ephemeral_ports_' = EphemeralInsert(ephemeral_ports_, origin, port.token)
          /\ UNCHANGED granted_objects
  /\ IF StableIdentityKnown(port)
     THEN dur_grants' = dur_grants \cup {<<origin, port>>} /\ UNCHANGED eph_grants
     ELSE eph_grants' = eph_grants \cup {<<origin, port>>} /\ UNCHANGED dur_grants
  /\ last_op' = Op("grant", origin, port,
                   IF <<origin, port>> \in Granted THEN "again" ELSE "new")
  /\ UNCHANGED <<platform, call, port_observer_list_, delivered>>

GrantPortPermission(origin, port) ==
  /\ Running
  /\ WithinGrantBound(origin, port)
  /\ port_info_' = MapInsert(port_info_, port.token, PortInfoToValue(port))
  /\ IF CanStorePersistentEntry(port)
     THEN /\ granted_objects' =
               [granted_objects EXCEPT ![origin] =
                  GrantObjectPermission(@, PortInfoToValue(port))]
          /\ UNCHANGED ephemeral_ports_
     ELSE /\ ephemeral_ports_' = EphemeralInsert(ephemeral_ports_, origin, port.token)
          /\ UNCHANGED granted_objects
  /\ IF StableIdentityKnown(port)
     THEN dur_grants' = dur_grants \cup {<<origin, port>>} /\ UNCHANGED eph_grants
     ELSE eph_grants' = eph_grants \cup {<<origin, port>>} /\ UNCHANGED dur_grants
  /\ last_op' = Op("grant", origin, port,
                   IF <<origin, port>> \in Granted THEN "again" ELSE "new")
  /\ UNCHANGED <<platform, call, port_manager_, client_receiver_, port_observer_list_,
                 delivered>>

(* variant: the origin's set is looked up with operator[], which creates it *)
CheckPortPermission_CreatesKey(origin, port) ==
  /\ Running
  /\ \E result \in HasPortPermission(origin, port) :
       last_op' = Op("check", origin, port, result)
  /\ ephemeral_ports_' =
       [o \in DOMAIN ephemeral_ports_ \cup {origin} |->
          IF o \in DOMAIN ephemeral_ports_ THEN ephemeral_ports_[o] ELSE {}]
  /\ UNCHANGED <<platform, call, port_manager_, client_receiver_, port_info_,
                 granted_objects, port_observer_list_,
                 delivered, eph_grants, dur_grants>>

CheckPortPermission(origin, port) ==
  /\ Running
  /\ \E result \in HasPortPermission(origin, port) :
       last_op' = Op("check", origin, port, result)
  /\ UNCHANGED <<platform, call, port_manager_, client_receiver_, port_info_,
                 ephemeral_ports_, granted_objects, port_observer_list_,
                 delivered, eph_grants, dur_grants>>

(* EnsurePortManagerConnection + SetUpPortManagerConnection *)
(* variant: the client endpoint is not registered *)
GetPortManager_NoClient ==
  /\ Running
  /\ port_manager_' = TRUE
  /\ last_op' = Op("connect", 0, NoPort, IF port_manager_ THEN "kept" ELSE "bound")
  /\ UNCHANGED <<platform, call, client_receiver_, port_info_, ephemeral_ports_,
                 granted_objects, port_observer_list_, delivered, eph_grants,
                 dur_grants>>

(* variant: a handle is bound on every demand *)
GetPortManager_AlwaysRebinds ==
  /\ Running
  /\ port_manager_' = TRUE
  /\ client_receiver_' = TRUE
  /\ last_op' = Op("connect", 0, NoPort, "bound")
  /\ UNCHANGED <<platform, call, port_info_, ephemeral_ports_, granted_objects,
                 port_observer_list_, delivered, eph_grants, dur_grants>>

GetPortManager ==
  /\ Running
  /\ port_manager_' = TRUE
  /\ client_receiver_' = (IF port_manager_ THEN client_receiver_ ELSE TRUE)
  /\ last_op' = Op("connect", 0, NoPort, IF port_manager_ THEN "kept" ELSE "bound")
  /\ UNCHANGED <<platform, call, port_info_, ephemeral_ports_, granted_objects,
                 port_observer_list_, delivered, eph_grants, dur_grants>>

(* base::ObserverList: an observer is registered once, at the end of the list *)
AddPortObserver(observer) ==
  /\ Running
  /\ port_observer_list_' =
       (IF \E i \in 1..Len(port_observer_list_) : port_observer_list_[i] = observer
        THEN port_observer_list_
        ELSE Append(port_observer_list_, observer))
  /\ last_op' = Op("add_observer", 0, NoPort, observer)
  /\ UNCHANGED <<platform, call, port_manager_, client_receiver_, port_info_,
                 ephemeral_ports_, granted_objects, delivered, eph_grants,
                 dur_grants>>

RemovePortObserver(observer) ==
  /\ Running
  /\ port_observer_list_' = SelectSeq(port_observer_list_,
                                      LAMBDA ob : ob # observer)
  /\ last_op' = Op("remove_observer", 0, NoPort, observer)
  /\ UNCHANGED <<platform, call, port_manager_, client_receiver_, port_info_,
                 ephemeral_ports_, granted_objects, delivered, eph_grants,
                 dur_grants>>

(* SerialPortManagerClient events arrive through the bound client receiver *)
(* variant: the arrival is recorded in the live map *)
OnPortAdded_Inserts(port) ==
  /\ Running
  /\ client_receiver_
  /\ CanNotify
  /\ delivered' = NotifyObservers(port_observer_list_, delivered,
                                  <<"added", port.token>>)
  /\ port_info_' = MapInsert(port_info_, port.token, PortInfoToValue(port))
  /\ last_op' = Op("added", 0, port, "none")
  /\ UNCHANGED <<platform, call, port_manager_, client_receiver_,
                 ephemeral_ports_, granted_objects, port_observer_list_,
                 eph_grants, dur_grants>>

OnPortAdded(port) ==
  /\ Running
  /\ client_receiver_
  /\ CanNotify
  /\ delivered' = NotifyObservers(port_observer_list_, delivered,
                                  <<"added", port.token>>)
  /\ last_op' = Op("added", 0, port, "none")
  /\ UNCHANGED <<platform, call, port_manager_, client_receiver_, port_info_,
                 ephemeral_ports_, granted_objects, port_observer_list_,
                 eph_grants, dur_grants>>

(* variant: the removal revokes the ephemeral grants of the token *)
OnPortRemoved_Revokes(port) ==
  /\ Running
  /\ client_receiver_
  /\ CanNotify
  /\ delivered' = NotifyObservers(port_observer_list_, delivered,
                                  <<"removed", port.token>>)
  /\ ephemeral_ports_' = [o \in DOMAIN ephemeral_ports_ |->
                            ephemeral_ports_[o] \ {port.token}]
  /\ port_info_' = MapErase(port_info_, port.token)
  /\ last_op' = Op("removed", 0, port, "none")
  /\ UNCHANGED <<platform, call, port_manager_, client_receiver_,
                 granted_objects, port_observer_list_, eph_grants, dur_grants>>

OnPortRemoved(port) ==
  /\ Running
  /\ client_receiver_
  /\ CanNotify
  /\ delivered' = NotifyObservers(port_observer_list_, delivered,
                                  <<"removed", port.token>>)
  /\ port_info_' = MapErase(port_info_, port.token)
  /\ last_op' = Op("removed", 0, port, "none")
  /\ UNCHANGED <<platform, call, port_manager_, client_receiver_, ephemeral_ports_,
                 granted_objects, port_observer_list_, eph_grants, dur_grants>>

(* variant: the ephemeral grants are kept *)
OnPortManagerConnectionError_KeepsEphemeral ==
  /\ Running
  /\ port_manager_
  /\ port_manager_' = FALSE
  /\ client_receiver_' = FALSE
  /\ port_info_' = EmptyMap
  /\ eph_grants' = {}
  /\ last_op' = Op("error", 0, NoPort,
                   IF ephemeral_ports_ # EmptyMap THEN "dropped_grants"
                   ELSE IF port_info_ # EmptyMap THEN "dropped_ports" ELSE "none")
  /\ UNCHANGED <<platform, call, port_observer_list_, delivered, dur_grants, ephemeral_ports_, granted_objects>>
(* variant: the durable grants are cleared as well *)
OnPortManagerConnectionError_ClearsDurable ==
  /\ Running
  /\ port_manager_
  /\ port_manager_' = FALSE
  /\ client_receiver_' = FALSE
  /\ port_info_' = EmptyMap
  /\ ephemeral_ports_' = EmptyMap
  /\ granted_objects' = [o \in Origins |-> <<>>]
  /\ eph_grants' = {}
  /\ last_op' = Op("error", 0, NoPort,
                   IF ephemeral_ports_ # EmptyMap THEN "dropped_grants"
                   ELSE IF port_info_ # EmptyMap THEN "dropped_ports" ELSE "none")
  /\ UNCHANGED <<platform, call, port_observer_list_, delivered, dur_grants>>
(* variant: the client receiver stays bound *)
OnPortManagerConnectionError_KeepsReceiver ==
  /\ Running
  /\ port_manager_
  /\ port_manager_' = FALSE
  /\ port_info_' = EmptyMap
  /\ ephemeral_ports_' = EmptyMap
  /\ eph_grants' = {}
  /\ last_op' = Op("error", 0, NoPort,
                   IF ephemeral_ports_ # EmptyMap THEN "dropped_grants"
                   ELSE IF port_info_ # EmptyMap THEN "dropped_ports" ELSE "none")
  /\ UNCHANGED <<platform, call, port_observer_list_, delivered, dur_grants, client_receiver_, granted_objects>>

(* the disconnect handler of the bound remote *)
OnPortManagerConnectionError ==
  /\ Running
  /\ port_manager_
  /\ port_manager_' = FALSE
  /\ client_receiver_' = FALSE
  /\ port_info_' = EmptyMap
  /\ ephemeral_ports_' = EmptyMap
  /\ eph_grants' = {}
  /\ last_op' = Op("error", 0, NoPort,
                   IF ephemeral_ports_ # EmptyMap THEN "dropped_grants"
                   ELSE IF port_info_ # EmptyMap THEN "dropped_ports" ELSE "none")
  /\ UNCHANGED <<platform, call, granted_objects, port_observer_list_, delivered,
                 dur_grants>>

Grant == \E origin \in Origins, port \in Ports : GrantPortPermission(origin, port)
Check == \E origin \in Origins, port \in Ports : CheckPortPermission(origin, port)
PortAdded == \E port \in Ports : OnPortAdded(port)
PortRemoved == \E port \in Ports : OnPortRemoved(port)

Next ==
  \/ Grant
  \/ Check
  \/ GetPortManager
  \/ PortAdded
  \/ PortRemoved
  \/ OnPortManagerConnectionError

Spec == Init /\ [][Next]_vars

(* ---- a profile whose durable collection holds records of another schema ---- *)
(* Values that lack a key the scan of this platform reads: a token-shaped
   value, and a value written before the driver key (or the instance id) was
   part of the schema. *)
LegacyObjects ==
  {v \in {[name |-> "ttyUSB0", token |-> EncodeToken(TokenOf(NumTokens))],
          [name |-> "Widget Adapter", vendor_id |-> 4660, product_id |-> 22136,
           serial_number |-> "ABC123"]} :
     IdentityKeys \ DOMAIN v # {}}
LegacyCount ==
  Cardinality({<<o, i>> \in Origins \X (1..(MaxGrants + MaxLegacy)) :
                 /\ i <= Len(granted_objects[o])
                 /\ IdentityKeys \ DOMAIN granted_objects[o][i] # {}})
StoreLegacyObject(origin, value) ==
  /\ Running
  /\ LegacyCount < MaxLegacy
  /\ granted_objects[origin] = <<>>   \* such records predate this context's grants
  /\ granted_objects' = [granted_objects EXCEPT ![origin] = <<value>>]
  /\ last_op' = Op("legacy", origin, NoPort, "none")
  /\ UNCHANGED <<platform, call, port_manager_, client_receiver_, port_info_,
                 ephemeral_ports_, port_observer_list_, delivered,
                 eph_grants, dur_grants>>
StoreLegacy == \E origin \in Origins, value \in LegacyObjects :
                 StoreLegacyObject(origin, value)

NextLegacy ==
  \/ Grant
  \/ Check
  \/ GetPortManager
  \/ PortAdded
  \/ PortRemoved
  \/ OnPortManagerConnectionError
  \/ StoreLegacy

SpecLegacy == Init /\ [][NextLegacy]_vars

(* ---- the context with its observers and the enumeration service ---- *)
AddObserver == \E observer \in Observers : AddPortObserver(observer)
RemoveObserver == \E observer \in Observers : RemovePortObserver(observer)

NextObservers ==
  \/ AddObserver
  \/ RemoveObserver
  \/ GetPortManager
  \/ PortAdded
  \/ PortRemoved
  \/ OnPortManagerConnectionError

SpecObservers == Init /\ [][NextObservers]_vars

(* ---- the static helpers, called on their own ---- *)
(* tokens whose halves have one byte of ByteSamples among bytes all 0 or all 255 *)
ByteSamples == {0, 1, 128, 255}
CodecHalves == {[i \in 1..8 |-> IF i = k THEN b ELSE c] :
                  k \in 1..8, b \in ByteSamples, c \in {0, 255}}
CodecTokens == [high : CodecHalves, low : CodecHalves]
(* texts that are not the encoding of a token *)
MalformedTexts ==
  {<<>>,
   <<1, 2, 3, 4>>,
   [k \in 1..24 |-> IF k = 5 THEN Pad ELSE 0],
   [k \in 1..23 |-> 0],
   [k \in 1..24 |-> IF k = 24 THEN Pad ELSE 0]}
(* descriptors with every combination of absent, empty and present attributes *)
OptionalStrings(x) == {None, Some(""), Some(x)}
ProbePorts ==
  [token : {TokenOf(1)},
   path : {"ttyUSB0"},
   display_name : OptionalStrings("Widget Adapter"),
   device_instance_id : {"", "USB\\VID_1234&PID_5678\\ABC123"},
   has_vendor_id : BOOLEAN,
   vendor_id : {4660},
   has_product_id : BOOLEAN,
   product_id : {22136},
   serial_number : OptionalStrings("ABC123"),
   usb_driver_name : OptionalStrings("AppleUSBCDC")]

StaticCall(fn, arg, ret, src) ==
  /\ call' = [fn |-> fn, arg |-> arg, ret |-> ret, src |-> src]
  /\ UNCHANGED <<platform, port_manager_, client_receiver_, port_info_,
                 ephemeral_ports_, granted_objects, port_observer_list_,
                 delivered, last_op, eph_grants, dur_grants>>
(* a run makes one call, and may decode what it encoded *)
CallEncodeToken ==
  /\ call.fn = "none"
  /\ \E token \in CodecTokens :
    StaticCall("EncodeToken", token, EncodeToken(token), token)
(* the text just encoded is decoded *)
CallDecodeToken ==
  /\ call.fn = "EncodeToken"
  /\ StaticCall("DecodeToken", call.ret, DecodeToken(call.ret), call.src)
CallDecodeMalformed ==
  /\ call.fn = "none"
  /\ \E text \in MalformedTexts :
    StaticCall("DecodeToken", text, DecodeToken(text), NullToken)
CallCanStorePersistentEntry ==
  /\ call.fn = "none"
  /\ \E port \in ProbePorts :
    StaticCall("CanStorePersistentEntry", port, CanStorePersistentEntry(port), port)
CallPortInfoToValue ==
  /\ call.fn = "none"
  /\ \E port \in ProbePorts :
    StaticCall("PortInfoToValue", port, PortInfoToValue(port), port)

NextStatic ==
  \/ CallEncodeToken
  \/ CallDecodeToken
  \/ CallDecodeMalformed
  \/ CallCanStorePersistentEntry
  \/ CallPortInfoToValue

SpecStatic == Init /\ [][NextStatic]_vars

(* ======================= properties ======================= *)
IsTrue(origin, port) == HasPortPermission(origin, port) = {"true"}
IsFalse(origin, port) == HasPortPermission(origin, port) = {"false"}

(* C1 - never over-grant: check(O, D) is true only if O was granted a
   descriptor with D's token non-persistably since the last connection loss,
   or D is persistable and O was granted a persistable descriptor of the same
   stable identity; a non-persistable D whose token is not in O's ephemeral
   set is denied. *)
C1_NeverOverGrant ==
  \A o \in Origins, p \in Ports :
    /\ "true" \in HasPortPermission(o, p) =>
         \/ \E g \in eph_grants : g[1] = o /\ g[2].token = p.token
         \/ /\ StableIdentityKnown(p)
            /\ \E g \in dur_grants : g[1] = o /\ SameStableIdentity(g[2], p)
    /\ (~StableIdentityKnown(p) /\ p.token \notin EphemeralSet(o)) => IsFalse(o, p)
(* a check denied for one origin although another origin holds the very token,
   and a check allowed for a descriptor that was itself never granted *)
C1_Witness ==
  /\ last_op.op = "check"
  /\ \/ /\ last_op.result = "false"
        /\ \E g \in eph_grants : g[1] # last_op.origin /\ g[2] = last_op.port
     \/ /\ last_op.result = "true"
        /\ <<last_op.origin, last_op.port>> \notin Granted

(* C2 - fail-closed on disconnect: the connection loss leaves check false for
   every origin and every non-persistable descriptor, and such a check turns
   from false to something else only by a grant to that origin of that token. *)
C2_FailClosedOnDisconnect ==
  [][ /\ last_op'.op = "error" =>
           \A o \in Origins, p \in Ports :
             ~StableIdentityKnown(p) => IsFalse(o, p)'
      /\ \A o \in Origins, p \in Ports :
           (~StableIdentityKnown(p) /\ IsFalse(o, p) /\ ~IsFalse(o, p)') =>
             /\ last_op'.op = "grant"
             /\ last_op'.origin = o
             /\ last_op'.port.token = p.token ]_vars
(* right after a loss that dropped ephemeral grants *)
C2_Witness ==
  /\ last_op.op = "error"
  /\ last_op.result = "dropped_grants"
  /\ \E o \in Origins, p \in Ports : ~StableIdentityKnown(p) /\ IsFalse(o, p)

(* C3 - durable survival: the connection loss leaves the durable collection
   unchanged, and after every step each persistable descriptor with the
   stable identity of a persistable grant of O is allowed for O. *)
C3_DurableSurvival ==
  [][ /\ last_op'.op = "error" => granted_objects' = granted_objects
      /\ \A g \in dur_grants', p \in Ports :
           (StableIdentityKnown(p) /\ SameStableIdentity(g[2], p)) =>
             IsTrue(g[1], p)' ]_vars
(* right after a loss: a descriptor with another token than the granted one *)
C3_Witness ==
  /\ last_op.op = "error"
  /\ \E g \in dur_grants, p \in Ports :
       /\ p.token # g[2].token
       /\ <<g[1], p>> \notin dur_grants
       /\ StableIdentityKnown(p)
       /\ SameStableIdentity(g[2], p)
       /\ IsTrue(g[1], p)

(* C4 - one grant kind per grant: a grant of a persistable descriptor writes
   its record to the origin's durable list (one entry added or replaced) and
   changes no ephemeral set; a grant of a non-persistable one inserts the
   token into the origin's ephemeral set and changes no durable list. *)
C4_ExactlyOneGrantKind ==
  [][ last_op'.op = "grant" =>
        LET o == last_op'.origin
            p == last_op'.port
        IN IF StableIdentityKnown(p)
           THEN /\ ephemeral_ports_' = ephemeral_ports_
                /\ \A o2 \in Origins \ {o} : granted_objects'[o2] = granted_objects[o2]
                /\ Len(granted_objects'[o]) \in
                     {Len(granted_objects[o]), Len(granted_objects[o]) + 1}
                /\ \E i \in 1..Len(granted_objects'[o]) :
                     /\ ValueIdentifies(granted_objects'[o][i], p)
                     /\ \A j \in 1..Len(granted_objects'[o]) \ {i} :
                          j <= Len(granted_objects[o])
                          /\ granted_objects'[o][j] = granted_objects[o][j]
           ELSE /\ granted_objects' = granted_objects
                /\ DOMAIN ephemeral_ports_' = DOMAIN ephemeral_ports_ \cup {o}
                /\ ephemeral_ports_'[o] = EphemeralSet(o) \cup {p.token}
                /\ \A o2 \in DOMAIN ephemeral_ports_ \ {o} :
                     ephemeral_ports_'[o2] = ephemeral_ports_[o2] ]_vars
(* a durable grant made while ephemeral grants exist, or the converse *)
C4_Witness ==
  /\ last_op.op = "grant"
  /\ last_op.result = "new"
  /\ IF StableIdentityKnown(last_op.port)
     THEN ephemeral_ports_ # EmptyMap
     ELSE granted_objects[last_op.origin] # <<>>

(* C5 - grant enables check: every (origin, descriptor) granted and not lost
   with the connection is allowed, right after the grant and after any later
   grant, check, arrival or removal. *)
C5_GrantEnablesCheck ==
  /\ \A g \in Granted : IsTrue(g[1], g[2])
  /\ last_op.op = "grant" => IsTrue(last_op.origin, last_op.port)
(* an ephemerally granted port is checked after it left the live map *)
C5_Witness ==
  /\ last_op.op = "check"
  /\ last_op.result = "true"
  /\ <<last_op.origin, last_op.port>> \in eph_grants
  /\ last_op.port.token \notin DOMAIN port_info_
  /\ Cardinality(Granted) > 1

(* C6 - a stored record that lacks a compared key is a non-match: every check
   returns a boolean, the one the scan gives when such records are skipped. *)
C6_MissingKeyIsNonMatch ==
  last_op.op = "check" =>
    last_op.result =
      (IF \/ last_op.port.token \in EphemeralSet(last_op.origin)
          \/ /\ StableIdentityKnown(last_op.port)
             /\ \E i \in 1..Len(granted_objects[last_op.origin]) :
                  ValueIdentifies(granted_objects[last_op.origin][i], last_op.port)
       THEN "true" ELSE "false")

C8_RemovalKeepsGrants ==
  [][ last_op'.op = "removed" =>
        /\ DOMAIN port_info_' = DOMAIN port_info_ \ {last_op'.port.token}
        /\ \A t \in DOMAIN port_info_' : port_info_'[t] = port_info_[t]
        /\ ephemeral_ports_' = ephemeral_ports_
        /\ granted_objects' = granted_objects
        /\ \A o \in Origins, p \in Ports :
             HasPortPermission(o, p)' = HasPortPermission(o, p) ]_vars
(* a granted port was removed: its map entry is gone, the grant is not *)
C8_Witness ==
  /\ last_op.op = "removed"
  /\ last_op.port.token \notin DOMAIN port_info_
  /\ port_info_ # EmptyMap
  /\ \E g \in Granted : g[2] = last_op.port /\ IsTrue(g[1], g[2])

(* C9 - grant idempotence: granting a pair that is already granted leaves it
   allowed and changes neither the ephemeral sets nor the durable lists, and
   no durable list ever holds two entries for one stable identity. *)
C9_GrantIdempotent ==
  [][ last_op'.op = "grant" =>
        /\ \A o \in Origins, p \in Ports :
             Cardinality({i \in 1..Len(granted_objects'[o]) :
                            ValueIdentifies(granted_objects'[o][i], p)}) <= 1
        /\ \A o \in Origins, p \in Ports :
             last_op' = Op("grant", o, p, "again") =>
               /\ IsTrue(o, p)'
               /\ ephemeral_ports_' = ephemeral_ports_
               /\ granted_objects' = granted_objects ]_vars
(* a second grant of the same pair, with one entry resp. one member for it *)
C9_Witness ==
  /\ last_op.op = "grant"
  /\ last_op.result = "again"
  /\ IsTrue(last_op.origin, last_op.port)
  /\ IF StableIdentityKnown(last_op.port)
     THEN Len(granted_objects[last_op.origin]) = 1
     ELSE ephemeral_ports_[last_op.origin] = {last_op.port.token}

(* C10 - disconnection: the step of the disconnect handler unbinds the service
   handle and the client endpoint and empties the live map and the whole
   ephemeral structure, whatever they held. *)
C10_DisconnectClearsAll ==
  [][ last_op'.op = "error" =>
        /\ port_manager_' = FALSE
        /\ client_receiver_' = FALSE
        /\ port_info_' = EmptyMap
        /\ DOMAIN ephemeral_ports_' = {} ]_vars
(* a loss that found the live map populated *)
C10_Witness ==
  /\ last_op.op = "error"
  /\ last_op.result = "dropped_ports"
  /\ ~port_manager_ /\ ~client_receiver_
  /\ port_info_ = EmptyMap /\ ephemeral_ports_ = EmptyMap

(* C11 - lazy reconnect: a context without a handle gets one only by a
   GetPortManager demand, which binds the handle and the client endpoint
   together; until then only a grant changes the live map or the ephemeral
   structure, which the loss left empty. *)
C11_LazyReconnect ==
  [][ /\ (~port_manager_ /\ port_manager_') =>
           /\ last_op' = Op("connect", 0, NoPort, "bound")
           /\ ~client_receiver_ /\ client_receiver_'
      /\ (~port_manager_ /\ last_op'.op # "grant") =>
           /\ port_info_' = port_info_
           /\ ephemeral_ports_' = ephemeral_ports_
      /\ last_op'.op = "error" =>
           /\ ~port_manager_'
           /\ port_info_' = EmptyMap
           /\ ephemeral_ports_' = EmptyMap ]_vars
(* a reconnection: a durable grant exists, so the live map was populated, and
   the new connection starts from the emptied state *)
C11_Witness ==
  /\ last_op = Op("connect", 0, NoPort, "bound")
  /\ port_manager_ /\ client_receiver_
  /\ dur_grants # {}
  /\ port_info_ = EmptyMap
  /\ ephemeral_ports_ = EmptyMap

(* C12 - one reset per lost connection: the handle is unbound exactly by the
   steps of the disconnect handler, each of which resets the store; a handle
   is bound only when none is bound, and while the handle stays bound no
   ephemeral grant is dropped. *)
C12_ResetOncePerDisconnect ==
  [][ /\ (port_manager_ /\ ~port_manager_') <=> last_op'.op = "error"
      /\ last_op'.op = "error" =>
           port_info_' = EmptyMap /\ ephemeral_ports_' = EmptyMap
      /\ last_op' = Op("connect", 0, NoPort, "bound") => ~port_manager_
      /\ (port_manager_ /\ port_manager_') =>
           \A o \in Origins : EphemeralSet(o) \subseteq EphemeralSet(o)' ]_vars
(* the loss of a later connection, which found nothing left to drop *)
C12_Witness ==
  /\ last_op = Op("error", 0, NoPort, "none")
  /\ dur_grants # {}
  /\ ~port_manager_

(* C13 - observer delivery: an arrival or removal event is delivered once to
   every registered observer, in registration order, after all earlier
   callbacks; no other step makes a callback; an observer is registered at
   most once, at the end of the list, and a removal takes only it out. *)
C13_ObserverDeliveryOrder ==
  [][ /\ IF last_op'.op \in {"added", "removed"}
         THEN delivered' =
                delivered \o [i \in 1..Len(port_observer_list_) |->
                                <<port_observer_list_[i],
                                  <<last_op'.op, last_op'.port.token>> >>]
         ELSE delivered' = delivered
      /\ \A i, j \in 1..Len(port_observer_list_') :
           port_observer_list_'[i] = port_observer_list_'[j] => i = j
      /\ last_op'.op = "add_observer" =>
           port_observer_list_' \in
             {port_observer_list_, Append(port_observer_list_, last_op'.result)}
      /\ last_op'.op = "remove_observer" =>
           /\ \A i \in 1..Len(port_observer_list_') :
                port_observer_list_'[i] # last_op'.result
           /\ \E k \in 0..Len(port_observer_list_) :
                port_observer_list_ \in
                  {port_observer_list_',
                   SubSeq(port_observer_list_', 1, k) \o <<last_op'.result>>
                     \o SubSeq(port_observer_list_', k + 1, Len(port_observer_list_'))}
      /\ last_op'.op \notin {"add_observer", "remove_observer"} =>
           port_observer_list_' = port_observer_list_ ]_vars
(* one event delivered to two observers in registration order, and two events
   delivered to one observer after the other was removed *)
C13_Witness ==
  /\ last_op.op \in {"added", "removed"}
  /\ Len(delivered) = 2
  /\ \/ /\ Len(port_observer_list_) = 2
        /\ delivered[1][1] = port_observer_list_[1]
        /\ delivered[2][1] = port_observer_list_[2]
        /\ delivered[1][2] = delivered[2][2]
     \/ /\ Len(port_observer_list_) = 1
        /\ delivered[1][1] = delivered[2][1]
        /\ delivered[1][2] # delivered[2][2]

(* C14 - driver-name disambiguation: on the platform that stores the driver
   name, two persistable descriptors with equal vendor id, product id and
   serial number and different driver names are different devices: a grant of
   one does not allow the other, and grants of both are two stored records. *)
SameUsbTriple(p, q) ==
  /\ p.vendor_id = q.vendor_id
  /\ p.product_id = q.product_id
  /\ p.serial_number = q.serial_number
C14_DriverNameDisambiguates ==
  platform = "mac" =>
    \A o \in Origins, p \in Ports, q \in Ports :
      (/\ StableIdentityKnown(p) /\ StableIdentityKnown(q)
       /\ SameUsbTriple(p, q)
       /\ p.usb_driver_name # q.usb_driver_name
       /\ <<o, p>> \in dur_grants) =>
        /\ (\A g \in dur_grants :
              g[1] = o => g[2].usb_driver_name # q.usb_driver_name) =>
             IsFalse(o, q)
        /\ <<o, q>> \in dur_grants =>
             \E i, j \in 1..Len(granted_objects[o]) :
               /\ i # j
               /\ ValueIdentifies(granted_objects[o][i], p)
               /\ ValueIdentifies(granted_objects[o][j], q)
(* the other driver's descriptor was checked and denied *)
C14_Witness ==
  /\ platform = "mac"
  /\ last_op.op = "check"
  /\ last_op.result = "false"
  /\ StableIdentityKnown(last_op.port)
  /\ \E g \in dur_grants :
       /\ g[1] = last_op.origin
       /\ SameUsbTriple(g[2], last_op.port)
       /\ g[2].usb_driver_name # last_op.port.usb_driver_name

(* C15 - codec round trip: decoding the encoding of a token gives the token
   back, and every encoding has the same length. *)
EncodedLength == 24
C15_CodecRoundTrip ==
  /\ call.fn = "EncodeToken" => Len(call.ret) = EncodedLength
  /\ (call.fn = "DecodeToken" /\ call.arg = EncodeToken(call.src)) =>
       call.ret = call.src
(* a token with bytes above 127 in both halves went through both directions *)
C15_Witness ==
  /\ call.fn = "DecodeToken"
  /\ Len(call.arg) = EncodedLength
  /\ call.arg = EncodeToken(call.src)
  /\ call.src.high # call.src.low
  /\ call.src.high[8] = 255
  /\ call.src.low[1] = 128

(* C16 - eligibility rule: CanStorePersistentEntry is false without a
   non-empty display name; otherwise it is true exactly when the instance id
   is non-empty (instance-id platform), or when vendor id, product id and a
   non-empty serial number are present (other platforms), together with a
   non-empty driver name on the disambiguating platform. *)
C16_CanPersistIsPlatformRule ==
  call.fn = "CanStorePersistentEntry" =>
    /\ call.ret = StableIdentityKnown(call.arg)
    /\ call.arg.display_name \in {None, Some("")} => call.ret = FALSE
(* a descriptor with a name and everything but a driver name: the platforms
   decide differently *)
C16_Witness ==
  /\ call.fn = "CanStorePersistentEntry"
  /\ call.arg.display_name = Some("Widget Adapter")
  /\ call.arg.device_instance_id = ""
  /\ call.arg.has_vendor_id /\ call.arg.has_product_id
  /\ call.arg.serial_number = Some("ABC123")
  /\ call.arg.usb_driver_name = Some("")
  /\ call.ret = (platform = "other")

(* C17 - as claimed: a non-persistable descriptor is serialized to the token
   key alone, a persistable one to the display name and the stable identity
   keys of the platform. *)
C17_SerializerKeySet ==
  call.fn = "PortInfoToValue" =>
    IF StableIdentityKnown(call.arg)
    THEN DOMAIN call.ret = {"name"} \cup IdentityKeys
    ELSE DOMAIN call.ret = {"token"}
(* C17 - as amended: a non-persistable descriptor is serialized to the name
   (the display name, or the path when that is absent or empty) and the
   encoded token; a persistable one to the display name and the stable
   identity attributes of the platform, without a token key. *)
C17_SerializerNameAndKeys ==
  call.fn = "PortInfoToValue" =>
    LET port == call.arg
        value == call.ret
    IN /\ value.name = (IF port.display_name \in {None, Some("")}
                        THEN port.path ELSE port.display_name[1])
       /\ IF StableIdentityKnown(port)
          THEN /\ DOMAIN value = {"name"} \cup IdentityKeys
               /\ ValueIdentifies(value, port)
          ELSE /\ DOMAIN value = {"name", "token"}
               /\ value.token = EncodeToken(port.token)
(* a descriptor without display name, serialized with the path as its name *)
C17_Witness ==
  /\ call.fn = "PortInfoToValue"
  /\ call.arg.display_name = None
  /\ call.ret.name = call.arg.path
  /\ "token" \in DOMAIN call.ret

(* C18 - origin isolation: a grant to one origin leaves the result of every
   check of every other origin as it was. *)
C18_OriginIsolation ==
  [][ last_op'.op = "grant" =>
        \A o \in Origins, p \in Ports :
          o # last_op'.origin =>
            HasPortPermission(o, p)' = HasPortPermission(o, p) ]_vars
(* a new grant to one origin, of a descriptor another origin is still denied,
   while that other origin holds a grant of its own *)
C18_Witness ==
  /\ last_op.op = "grant"
  /\ last_op.result = "new"
  /\ IsTrue(last_op.origin, last_op.port)
  /\ \E o \in Origins :
       /\ o # last_op.origin
       /\ IsFalse(o, last_op.port)
       /\ \E g \in Granted : g[1] = o

(* C19 - check is read-only: a check changes neither the ephemeral structure
   (its origin keys included), the live map, the durable lists, the observer
   list nor the connection; a grant does not change the connection either. *)
C19_CheckIsReadOnly ==
  [][ /\ last_op'.op = "check" =>
           /\ ephemeral_ports_' = ephemeral_ports_
           /\ DOMAIN ephemeral_ports_' = DOMAIN ephemeral_ports_
           /\ port_info_' = port_info_
           /\ granted_objects' = granted_objects
           /\ port_observer_list_' = port_observer_list_
           /\ port_manager_' = port_manager_
           /\ client_receiver_' = client_receiver_
      /\ last_op'.op = "grant" =>
           /\ port_manager_' = port_manager_
           /\ client_receiver_' = client_receiver_ ]_vars
(* a denied check for an origin without an ephemeral set, in a disconnected
   context where another origin has one *)
C19_Witness ==
  /\ last_op.op = "check"
  /\ last_op.result = "false"
  /\ last_op.origin \notin DOMAIN ephemeral_ports_
  /\ ephemeral_ports_ # EmptyMap
  /\ ~port_manager_ /\ ~client_receiver_

(* C20 - single connection: after every step the client endpoint is bound
   exactly when the service handle is, and a GetPortManager demand made while
   the handle is bound keeps the handle and the endpoint as they are. *)
C20_SingleConnection ==
  [][ /\ port_manager_' <=> client_receiver_'
      /\ (last_op'.op = "connect" /\ port_manager_) =>
           /\ last_op'.result = "kept"
           /\ port_manager_' /\ client_receiver_' = client_receiver_
           /\ port_info_' = port_info_
           /\ ephemeral_ports_' = ephemeral_ports_ ]_vars
(* a demand answered with the handle already bound, grants in place *)
C20_Witness ==
  /\ last_op = Op("connect", 0, NoPort, "kept")
  /\ port_manager_ /\ client_receiver_
  /\ ephemeral_ports_ # EmptyMap
====
